---- MODULE Spec2Model ----
(***************************************************************************)
(* Cancellation tree of package context (cancelCtx.go): cancelCtx,         *)
(* propagateCancel, parentCancelCtx, removeChild, WithCancel,              *)
(* WithDeadline.  Goroutines are threads with a call stack; a mutex is     *)
(* the id of the thread holding it.  A critical section that takes one     *)
(* lock and calls nothing is one step; a section that calls cancel while   *)
(* holding its lock keeps the lock across steps.  A call begins with its   *)
(* first access to shared state (pushing a frame is local).  The           *)
(* lock-protected reads of parentCancelCtx (Done, the p.done comparison)   *)
(* are taken together with the step that follows them: what they read      *)
(* never changes once the done channel exists.                             *)
(***************************************************************************)
EXTENDS Integers, Sequences, FiniteSets, TLC

\* ---------------------------------------------------------------- bounds
MaxScopes == 3      \* derived contexts
MaxCallers == 2     \* goroutines of the caller that derive and cancel
MaxTime == 1        \* clock values 0..MaxTime
MaxActive == 2      \* goroutines in a call when another call begins
MaxForeign == 1     \* contexts derived directly from the foreign context
MaxValues == 1      \* contexts made by WithValue
MaxTimers == 1      \* timer contexts whose parent carries no deadline

\* ------------------------------------------------------------ identities
Background == 0                 \* the emptyCtx root
Foreign == MaxScopes + 1        \* a Context implemented outside the package
Scopes == 1..MaxScopes
NoCtx == 0                      \* a failed *cancelCtx type assertion

NoChan == 0                     \* a nil channel
ClosedChan == -1                \* the package's shared closedchan
\* the channel made by scope s in Done() is named s; Foreign's is Foreign

Nil == "nil"
Canceled == "Canceled"
DeadlineExceeded == "DeadlineExceeded"
ForeignErr == "ForeignErr"      \* the error a foreign parent reports

NoPanic == "none"
NilErrPanic == "context: internal error: missing cancel error"
ClosePanic == "close of closed channel"

NoDeadline == -1                \* Deadline() reporting ok = false

Callers == 1..MaxCallers
TimerThread(s) == MaxCallers + s
WatcherThread(s) == MaxCallers + MaxScopes + s
Threads == 1..(MaxCallers + 2 * MaxScopes)
NoThread == 0

VARIABLES
    kind,        \* scope -> "none" | "cancel" | "timer" | "value"
    parent,      \* scope -> the embedded Context
    deadline,    \* timerCtx.deadline
    mu,          \* cancelCtx.mu: the thread holding it, or NoThread
    done,        \* cancelCtx.done: NoChan, ClosedChan or the scope's channel
    closed,      \* the channels that have been closed
    children,    \* cancelCtx.children
    err,         \* cancelCtx.err
    timerSet,    \* timerCtx.timer # nil
    timerState,  \* the runtime timer: "none" | "pending" | "fired" | "stopped"
    trigger,     \* the CancelFunc returned: "none" | "rm" | "norm"
    now,         \* the clock
    foreignErr,  \* Err() of the foreign context
    stack,       \* thread -> sequence of frames
    goroutines,  \* the goroutines counter
    panicked     \* the panic that ended the program: NoPanic, NilErrPanic, ClosePanic

vars == <<kind, parent, deadline, mu, done, closed, children, err, timerSet,
          timerState, trigger, now, foreignErr, stack, goroutines, panicked>>

scopeVars == <<kind, parent, deadline>>

\* ------------------------------------------------------- Context methods
Cancellable(c) == c \in Scopes /\ kind[c] \in {"cancel", "timer"}

\* The scope whose Done() a call on ctx ends in: cancelCtx answers itself,
\* valueCtx and the embedded Context delegate, emptyCtx returns nil.
RECURSIVE DoneOwner(_)
DoneOwner(ctx) ==
    IF ctx = Background THEN NoCtx
    ELSE IF ctx = Foreign THEN Foreign
    ELSE IF kind[ctx] = "value" THEN DoneOwner(parent[ctx])
    ELSE ctx

\* cancelCtx.Done: the lock is free
DoneFree(ctx) ==
    LET o == DoneOwner(ctx) IN o \in Scopes => mu[o] = NoThread

\* cancelCtx.Done: the channel returned
DoneChan(ctx) ==
    LET o == DoneOwner(ctx) IN
    IF o = NoCtx THEN NoChan
    ELSE IF o = Foreign THEN Foreign
    ELSE IF done[o] = NoChan THEN o ELSE done[o]

\* cancelCtx.Done: the done field after the call (lazily made)
DoneAfter(ctx) ==
    LET o == DoneOwner(ctx) IN
    IF o \in Scopes /\ done[o] = NoChan THEN [done EXCEPT ![o] = o] ELSE done

IsClosed(ch) == ch = ClosedChan \/ ch \in closed

\* cancelCtx.Err through the chain of embedded contexts
ErrOf(ctx) ==
    LET o == DoneOwner(ctx) IN
    IF o = NoCtx THEN Nil
    ELSE IF o = Foreign THEN foreignErr
    ELSE err[o]

\* cancelCtx.Value(&cancelCtxKey): the nearest *cancelCtx, or NoCtx
RECURSIVE ValueCancelCtx(_)
ValueCancelCtx(ctx) ==
    IF ctx = Background \/ ctx = Foreign THEN NoCtx
    ELSE IF kind[ctx] = "value" THEN ValueCancelCtx(parent[ctx])
    ELSE ctx

\* Deadline(): timerCtx answers its own, the others delegate
RECURSIVE DeadlineOf(_)
DeadlineOf(ctx) ==
    IF ctx = Background \/ ctx = Foreign THEN NoDeadline
    ELSE IF kind[ctx] = "timer" THEN deadline[ctx]
    ELSE DeadlineOf(parent[ctx])

\* (mutation) the lookup does not pass through valueCtx
NoLookup(ctx, d) ==
    IF d = ClosedChan \/ d = NoChan \/ ctx \notin Scopes THEN NoCtx
    ELSE IF kind[ctx] = "value" THEN NoCtx ELSE ctx

\* parentCancelCtx up to the type assertion
ParentLookup(ctx, d) ==
    IF d = ClosedChan \/ d = NoChan THEN NoCtx ELSE ValueCancelCtx(ctx)

\* parentCancelCtx: ok = p.done == done, dn the done fields after parent.Done()
SameDone(dn, p, d) == dn[p] = d

\* ---------------------------------------------------------------- frames
Frame(fn, pc, c, rm, e, par, d, p, todo, src, win, late) ==
    [fn |-> fn, pc |-> pc, c |-> c, rm |-> rm, e |-> e, par |-> par, d |-> d,
     p |-> p, todo |-> todo, src |-> src, win |-> win, late |-> late]

\* a panic ends the program: no goroutine takes another step
Alive == panicked = NoPanic

Top(t) == stack[t][Len(stack[t])]
Running(t) == Len(stack[t]) > 0
At(t, fn, pc) == Alive /\ Running(t) /\ Top(t).fn = fn /\ Top(t).pc = pc
Pop(s) == SubSeq(s, 1, Len(s) - 1)
SetTop(s, f) == [s EXCEPT ![Len(s)] = f]

\* the cancelCtx.cancel call that set c.err is still running
WinnerRunning(c) ==
    \E t \in Threads : \E i \in 1..Len(stack[t]) :
        stack[t][i].fn = "cancel" /\ stack[t][i].c = c /\ stack[t][i].win

\* c is cancelled and the call that cancelled it has returned
CancelDone(c) == err[c] # Nil /\ ~WinnerRunning(c)

\* c is cancelled and no cancel call on c is running any more
CancelReturned(c) ==
    /\ err[c] # Nil
    /\ ~\E t \in Threads : \E i \in 1..Len(stack[t]) :
           stack[t][i].fn \in {"cancel", "timerCancel"} /\ stack[t][i].c = c

\* removeChild(c.Context, c) reaches a *cancelCtx (with only a root or a foreign
\* context above c it returns at once and touches nothing shared)
RemovalTouches(c) == ValueCancelCtx(parent[c]) # NoCtx

TypeOK ==
    /\ kind \in [Scopes -> {"none", "cancel", "timer", "value"}]
    /\ mu \in [Scopes -> {NoThread} \cup Threads]
    /\ err \in [Scopes -> {Nil, Canceled, DeadlineExceeded, ForeignErr}]
    /\ children \in [Scopes -> SUBSET Scopes]
    /\ now \in 0..MaxTime
    /\ panicked \in {NoPanic, NilErrPanic, ClosePanic}

Init ==
    /\ kind = [s \in Scopes |-> "none"]
    /\ parent = [s \in Scopes |-> Background]
    /\ deadline = [s \in Scopes |-> NoDeadline]
    /\ mu = [s \in Scopes |-> NoThread]
    /\ done = [s \in Scopes |-> NoChan]
    /\ closed = {}
    /\ children = [s \in Scopes |-> {}]
    /\ err = [s \in Scopes |-> Nil]
    /\ timerSet = [s \in Scopes |-> FALSE]
    /\ timerState = [s \in Scopes |-> "none"]
    /\ trigger = [s \in Scopes |-> "none"]
    /\ now = 0
    /\ foreignErr = Nil
    /\ stack = [t \in Threads |-> << >>]
    /\ goroutines = 0
    /\ panicked = NoPanic

\* ------------------------------------------------------------ mutations
\* deviations from the code, substituted for a definition below to test that a
\* formula depends on it
NoFanOut(c) == {}
NeverCancelled(c) == FALSE
CauseCanceled(e) == Canceled

NeverGone(p) == FALSE

ParentCauseCanceled(par) == Canceled

FanOutWithParent(c) == children[c] \cup ({ValueCancelCtx(parent[c])} \ {NoCtx})

KeepChild(par, c) == children

NeverReady(d) == FALSE

NeverFiresFirst(par, d) == FALSE

AlwaysLive(c) == TRUE

DoneUntouched(dn, c) == dn

NeverMissing(e) == FALSE

ChildrenOfChild(p, c) == [children EXCEPT ![c] = @ \cup {p}]

ExpiredAsCanceled == Canceled

\* ------------------------------------------------- parentCancelCtx
\* lines 111-127: the *cancelCtx found, or NoCtx
ParentCancelCtx(ctx) ==
    LET p == ParentLookup(ctx, DoneChan(ctx)) IN
    IF p # NoCtx /\ SameDone(DoneAfter(ctx), p, DoneChan(ctx)) THEN p ELSE NoCtx

\* the locks parentCancelCtx takes are free
ParentFree(ctx) ==
    /\ DoneFree(ctx)
    /\ ValueCancelCtx(ctx) # NoCtx => mu[ValueCancelCtx(ctx)] = NoThread

\* --------------------------------------------------- cancelCtx.cancel
\* lines 65-67: if err == nil { panic(...) }
MissingCause(e) == e = Nil

\* line 69: if c.err != nil
AlreadyCancelled(c) == err[c] # Nil

\* line 82: for child := range c.children
FanOutSet(c) == children[c]

\* line 84: child.cancel(false, err)
FanOutCause(e) == e

\* line 74: c.err = err
ErrSet(c, e) == [err EXCEPT ![c] = e]

\* lines 76-80: c.done = closedchan, or close(c.done); dn is the done fields
DoneClosedBy(dn, c) == IF dn[c] = NoChan THEN [dn EXCEPT ![c] = ClosedChan] ELSE dn
ClosedBy(dn, c) == IF dn[c] = NoChan THEN closed ELSE closed \cup {dn[c]}
DoubleClose(dn, c) == dn[c] # NoChan /\ IsClosed(dn[c])

\* lines 88-93 after c.mu.Unlock(): removeChild(c.Context, c) is next, or return
AfterUnlock(below, f) ==
    IF f.rm /\ RemovalTouches(f.c)
    THEN Append(below, [f EXCEPT !.pc = "c_remove"]) ELSE below

\* lines 70-71 after c.mu.Unlock(): the return.  It is a step of its own only
\* where the caller asked for removal and c is still in its parent's children
\* (everywhere else the return is local)
AfterEarlyUnlock(below, f) ==
    IF f.rm /\ RemovalTouches(f.c) /\ f.c \in children[ValueCancelCtx(parent[f.c])]
    THEN Append(below, [f EXCEPT !.pc = "c_early"]) ELSE below

\* lines 64-88: thread t, with the frames below, enters cancelCtx.cancel: the
\* panic on a nil err, else the lock, the test of c.err, c.err = err, the close,
\* and with no child to cancel also c.children = nil and the unlock
CancelBody(t, below, f, dn) ==
    LET c == f.c
        w == [f EXCEPT !.win = TRUE]
    IN
    IF MissingCause(f.e)
    THEN /\ panicked' = NilErrPanic
         /\ done' = dn
         /\ UNCHANGED <<stack, err, closed, children, mu>>
    ELSE
    /\ mu[c] = NoThread
    /\ IF AlreadyCancelled(c)
       THEN /\ stack' = [stack EXCEPT ![t] = AfterEarlyUnlock(below, f)]
            /\ done' = dn
            /\ UNCHANGED <<err, closed, panicked, children, mu>>
       ELSE /\ err' = ErrSet(c, f.e)
            /\ done' = DoneClosedBy(dn, c)
            /\ closed' = ClosedBy(dn, c)
            /\ panicked' = IF DoubleClose(dn, c) THEN ClosePanic ELSE panicked
            /\ IF FanOutSet(c) = {}
               THEN /\ children' = [children EXCEPT ![c] = {}]
                    /\ stack' = [stack EXCEPT ![t] = AfterUnlock(below, w)]
                    /\ UNCHANGED mu
               ELSE /\ mu' = [mu EXCEPT ![c] = t]
                    /\ stack' = [stack EXCEPT ![t] =
                           Append(below, [w EXCEPT !.pc = "c_loop", !.todo = FanOutSet(c)])]
                    /\ UNCHANGED children

\* c.cancel(rm, e) called by thread t with the frames below.  timerCtx.cancel
\* calls c.cancelCtx.cancel(false, err) first, then removeChild, then stops the
\* timer.  fresh: c is not yet known to any other goroutine and has no timer,
\* so stopping the timer is local.  late records that c was cancelled and every
\* earlier cancel call on it had returned when the call began.
CancelCall(t, below, c, rm, e, src, fresh, dn) ==
    LET late == CancelReturned(c)
        timer == ~fresh /\ kind[c] = "timer"
        tf == Frame("timerCancel", IF rm /\ RemovalTouches(c) THEN "t_remove" ELSE "t_stop",
                    c, rm, e, NoCtx, NoChan, NoCtx, {}, src, FALSE, late)
        f == Frame("cancel", "c_lock", c, rm /\ ~timer, e, NoCtx, NoChan, NoCtx, {}, src,
                   FALSE, late)
    IN CancelBody(t, IF timer THEN Append(below, tf) ELSE below, f, dn)

\* lines 82-85: one iteration of the loop, c.mu held: child.cancel(false, err)
CancelLoop(t) ==
    /\ At(t, "cancel", "c_loop")
    /\ \E child \in Top(t).todo :
         LET f == Top(t) IN
         CancelCall(t, SetTop(stack[t], [f EXCEPT !.todo = @ \ {child}]), child, FALSE,
                    FanOutCause(f.e), "fanout", FALSE, done)
    /\ UNCHANGED <<scopeVars, timerSet, timerState, trigger, now, foreignErr, goroutines>>

\* line 71: return // already canceled
CancelEarly(t) ==
    /\ At(t, "cancel", "c_early")
    /\ stack' = [stack EXCEPT ![t] = Pop(@)]
    /\ UNCHANGED <<scopeVars, mu, done, closed, children, err, timerSet, timerState, trigger,
                   now, foreignErr, goroutines, panicked>>

\* (mutation) the loop ends without c.mu.Unlock()
KeepLock(t) ==
    /\ At(t, "cancel", "c_loop")
    /\ Top(t).todo = {}
    /\ children' = [children EXCEPT ![Top(t).c] = {}]
    /\ stack' = [stack EXCEPT ![t] = AfterUnlock(Pop(@), Top(t))]
    /\ UNCHANGED <<scopeVars, mu, done, closed, err, timerSet, timerState, trigger, now,
                   foreignErr, goroutines, panicked>>

\* lines 87-88: c.children = nil; c.mu.Unlock()
CancelUnlock(t) ==
    /\ At(t, "cancel", "c_loop")
    /\ Top(t).todo = {}
    /\ LET f == Top(t) IN
       /\ children' = [children EXCEPT ![f.c] = {}]
       /\ mu' = [mu EXCEPT ![f.c] = NoThread]
       /\ stack' = [stack EXCEPT ![t] = AfterUnlock(Pop(@), f)]
    /\ UNCHANGED <<scopeVars, done, closed, err, timerSet, timerState, trigger, now,
                   foreignErr, goroutines, panicked>>

\* -------------------------------------------------------- removeChild
\* lines 98-108: the children sets after removeChild(par, c)
RemoveChild(par, c) ==
    LET p == ParentCancelCtx(par) IN
    IF p = NoCtx THEN children ELSE [children EXCEPT ![p] = @ \ {c}]

\* lines 90-93: removeChild(c.Context, c), the last statement of cancelCtx.cancel
CancelRemove(t) ==
    /\ At(t, "cancel", "c_remove")
    /\ LET f == Top(t) IN
       /\ ParentFree(parent[f.c])
       /\ done' = DoneAfter(parent[f.c])
       /\ children' = RemoveChild(parent[f.c], f.c)
       /\ stack' = [stack EXCEPT ![t] = Pop(@)]
    /\ UNCHANGED <<scopeVars, mu, closed, err, timerSet, timerState, trigger, now,
                   foreignErr, goroutines, panicked>>

\* ---------------------------------------------------- timerCtx.cancel
\* after c.cancelCtx.cancel(false, err): removeChild(c.cancelCtx.Context, c)
TimerRemove(t) ==
    /\ At(t, "timerCancel", "t_remove")
    /\ LET f == Top(t) IN
       /\ ParentFree(parent[f.c])
       /\ done' = DoneAfter(parent[f.c])
       /\ children' = RemoveChild(parent[f.c], f.c)
       /\ stack' = [stack EXCEPT ![t] = SetTop(@, [f EXCEPT !.pc = "t_stop"])]
    /\ UNCHANGED <<scopeVars, mu, closed, err, timerSet, timerState, trigger, now,
                   foreignErr, goroutines, panicked>>

\* c.timer.Stop(); c.timer = nil under c.mu
TimerStop(t) ==
    /\ At(t, "timerCancel", "t_stop")
    /\ LET f == Top(t) IN
       /\ mu[f.c] = NoThread
       /\ timerSet' = [timerSet EXCEPT ![f.c] = FALSE]
       /\ timerState' = IF timerSet[f.c] /\ timerState[f.c] = "pending"
                        THEN [timerState EXCEPT ![f.c] = "stopped"] ELSE timerState
       /\ stack' = [stack EXCEPT ![t] = Pop(@)]
    /\ UNCHANGED <<scopeVars, mu, done, closed, children, err, trigger, now, foreignErr,
                   goroutines, panicked>>


\* ---------------------------------------------------- propagateCancel
\* line 239: if p.err != nil
ParentGone(p) == err[p] # Nil

\* line 248: p.children[child] = struct{}{}
ChildrenWith(p, c) == [children EXCEPT ![p] = @ \cup {c}]

\* lines 231-232: case <-done is ready
SelectReady(d) == IsClosed(d)

\* line 232, 257: the cause handed to the child
InheritedCause(par) == ErrOf(par)

\* line 239: child.cancel(false, p.err)
RegisterCause(p) == err[p]

\* propagateCancel has returned to WithCancel (line 211: the CancelFunc is
\* returned) or to WithDeadline (line 286: time.Until is next)
AfterPropagateStack(f) ==
    IF f.fn = "WithCancel" THEN << >> ELSE << [f EXCEPT !.pc = "wd_until"] >>
AfterPropagateTrigger(f) ==
    IF f.fn = "WithCancel" THEN [trigger EXCEPT ![f.c] = "rm"] ELSE trigger

WatcherFrame(par, c) ==
    Frame("watcher", "w_enter", c, FALSE, Nil, par, NoChan, NoChan, {}, "none", FALSE, FALSE)

\* lines 224-237, 251-261: done := parent.Done(); the select; parentCancelCtx;
\* the goroutine started when no *cancelCtx is found.  The child is fresh: the
\* child.cancel of line 232 touches nothing another goroutine can see.
PropagateCancel(t, f) ==
    LET d == DoneChan(f.par)
        p == ParentCancelCtx(f.par)
        dn == DoneAfter(f.par)
    IN
    /\ ParentFree(f.par)
    /\ IF d = NoChan
       THEN /\ stack' = [stack EXCEPT ![t] = AfterPropagateStack(f)]
            /\ trigger' = AfterPropagateTrigger(f)
            /\ done' = dn
            /\ UNCHANGED <<goroutines, mu, closed, children, err, panicked>>
       ELSE IF SelectReady(d)
       THEN /\ CancelCall(t, AfterPropagateStack(f), f.c, FALSE, InheritedCause(f.par),
                          "parent", TRUE, dn)
            /\ trigger' = AfterPropagateTrigger(f)
            /\ UNCHANGED goroutines
       ELSE IF p # NoCtx
       THEN /\ stack' = [stack EXCEPT ![t] = << [f EXCEPT !.pc = "pc_reg", !.p = p] >>]
            /\ done' = dn
            /\ UNCHANGED <<trigger, goroutines, mu, closed, children, err, panicked>>
       ELSE /\ goroutines' = goroutines + 1
            /\ stack' = [stack EXCEPT ![t] = AfterPropagateStack(f),
                                      ![WatcherThread(f.c)] = << WatcherFrame(f.par, f.c) >>]
            /\ trigger' = AfterPropagateTrigger(f)
            /\ done' = dn
            /\ UNCHANGED <<mu, closed, children, err, panicked>>

\* lines 238-250: under p.mu, cancel the (fresh) child or put it in p.children
PcRegister(t) ==
    /\ At(t, Top(t).fn, "pc_reg")
    /\ LET f == Top(t) IN
       /\ mu[f.p] = NoThread
       /\ trigger' = AfterPropagateTrigger(f)
       /\ IF ParentGone(f.p)
          THEN CancelCall(t, AfterPropagateStack(f), f.c, FALSE, RegisterCause(f.p),
                          "parent", TRUE, done)
          ELSE /\ children' = ChildrenWith(f.p, f.c)
               /\ stack' = [stack EXCEPT ![t] = AfterPropagateStack(f)]
               /\ UNCHANGED <<mu, done, closed, err, panicked>>
    /\ UNCHANGED <<scopeVars, timerSet, timerState, now, foreignErr, goroutines>>

\* ------------------------------------------------- the watcher goroutine
\* lines 255-258: parent.Done() and child.Done() evaluated on entry to the select
WatchEnter(t) ==
    /\ At(t, "watcher", "w_enter")
    /\ LET f == Top(t) IN
       /\ DoneFree(f.par) /\ DoneFree(f.c)
       /\ done' = [DoneAfter(f.par) EXCEPT ![f.c] = IF @ = NoChan THEN f.c ELSE @]
       /\ stack' = [stack EXCEPT ![t] =
              SetTop(@, [f EXCEPT !.pc = "w_select", !.d = DoneChan(f.par), !.p = DoneChan(f.c)])]
    /\ UNCHANGED <<scopeVars, mu, closed, children, err, timerSet, timerState, trigger,
                   now, foreignErr, goroutines, panicked>>

\* lines 256-257: case <-parent.Done(): child.cancel(false, parent.Err())
WatchParentFires(t) ==
    /\ At(t, "watcher", "w_select")
    /\ LET f == Top(t) IN
       /\ SelectReady(f.d)
       /\ DoneFree(f.par)
       /\ CancelCall(t, << >>, f.c, FALSE, InheritedCause(f.par), "watcher", FALSE, done)
    /\ UNCHANGED <<scopeVars, timerSet, timerState, trigger, now, foreignErr, goroutines>>

\* (mutation) the select has no case for child.Done()
ChildCaseMissing(t) == FALSE

\* line 258: case <-child.Done():
WatchChildFires(t) ==
    /\ At(t, "watcher", "w_select")
    /\ SelectReady(Top(t).p)
    /\ stack' = [stack EXCEPT ![t] = Pop(@)]
    /\ UNCHANGED <<scopeVars, mu, done, closed, children, err, timerSet, timerState,
                   trigger, now, foreignErr, goroutines, panicked>>

\* ------------------------------------------------------------ derivation
\* a goroutine in the middle of a call (a watcher parked in its select is not)
Busy(t) == Running(t) /\ ~(Top(t).fn = "watcher" /\ Top(t).pc = "w_select")
MayBegin == Cardinality({t \in Threads : Busy(t)}) < MaxActive

\* callers are interchangeable: the first idle one takes the next call
IdleCaller(t) == Alive /\ t \in Callers /\ ~Running(t) /\ \A u \in Callers : u < t => Running(u)

Allocated == {s \in Scopes : kind[s] # "none"}
NextScope == Cardinality(Allocated) + 1

\* a Context a caller holds: a root, the foreign one, or one returned to it
Held(ctx) ==
    \/ ctx = Background
    \/ ctx = Foreign /\ Cardinality({s \in Scopes : kind[s] # "none" /\ parent[s] = Foreign}) < MaxForeign
    \/ ctx \in Scopes /\ trigger[ctx] # "none"

\* line 278: cur, ok := parent.Deadline(); ok && cur.Before(d)
ParentFiresFirst(par, d) == DeadlineOf(par) # NoDeadline /\ DeadlineOf(par) < d

\* line 287: dur <= 0
Expired(d) == d - now <= 0

\* line 288: c.cancel(true, DeadlineExceeded)
ExpiredCause == DeadlineExceeded

\* lines 294-296: time.AfterFunc(dur, func() { c.cancel(true, DeadlineExceeded) })
TimerCause == DeadlineExceeded

\* lines 211, 289, 298: the CancelFunc passes Canceled
TriggerCause == Canceled

\* the frame of WithCancel or WithDeadline; e keeps what parent.Err() was when
\* the call began
DeriveFrame(fn, c, par) ==
    Frame(fn, "pc_done", c, TRUE, ErrOf(par), par, NoChan, NoCtx, {}, "none", FALSE, FALSE)

\* lines 205-211: c := newCancelCtx(parent); propagateCancel(parent, &c)
DoWithCancel(t, par, c) ==
    /\ kind' = [kind EXCEPT ![c] = "cancel"]
    /\ parent' = [parent EXCEPT ![c] = par]
    /\ PropagateCancel(t, DeriveFrame("WithCancel", c, par))
    /\ UNCHANGED deadline

WithCancel(t, par) ==
    /\ IdleCaller(t) /\ MayBegin
    /\ NextScope \in Scopes
    /\ Held(par)
    /\ DoWithCancel(t, par, NextScope)
    /\ UNCHANGED <<timerSet, timerState, now, foreignErr>>

\* lines 274-285: WithDeadline up to the return of propagateCancel(parent, c)
WithDeadline(t, par, d) ==
    /\ IdleCaller(t) /\ MayBegin
    /\ NextScope \in Scopes
    /\ Held(par)
    /\ LET c == NextScope IN
       IF ParentFiresFirst(par, d)
       THEN DoWithCancel(t, par, c)
       ELSE /\ DeadlineOf(par) = NoDeadline =>
                   Cardinality({s \in Scopes : kind[s] = "timer"}) < MaxTimers
            /\ kind' = [kind EXCEPT ![c] = "timer"]
            /\ parent' = [parent EXCEPT ![c] = par]
            /\ deadline' = [deadline EXCEPT ![c] = d]
            /\ PropagateCancel(t, DeriveFrame("WithDeadline", c, par))
    /\ UNCHANGED <<timerSet, timerState, now, foreignErr>>

\* line 293: if c.err == nil
StillLive(c) == err[c] = Nil

\* lines 286-298: dur := time.Until(d); the immediate cancel, or the timer
\* started under c.mu when c.err == nil, and the return
WdUntil(t) ==
    /\ At(t, "WithDeadline", "wd_until")
    /\ LET f == Top(t)
           c == f.c
       IN
       IF Expired(deadline[c])
       THEN /\ CancelCall(t, << [f EXCEPT !.pc = "ret"] >>, c, TRUE, ExpiredCause,
                          "deadline", FALSE, done)
            /\ UNCHANGED <<timerSet, timerState, trigger>>
       ELSE /\ mu[c] = NoThread
            /\ timerSet' = IF StillLive(c) THEN [timerSet EXCEPT ![c] = TRUE] ELSE timerSet
            /\ timerState' = IF StillLive(c) THEN [timerState EXCEPT ![c] = "pending"] ELSE timerState
            /\ trigger' = [trigger EXCEPT ![c] = "rm"]
            /\ stack' = [stack EXCEPT ![t] = Pop(@)]
            /\ UNCHANGED <<mu, done, closed, children, err, panicked>>
    /\ UNCHANGED <<scopeVars, now, foreignErr, goroutines>>

\* line 289: return c, func() { c.cancel(false, Canceled) }
WdReturn(t) ==
    /\ At(t, "WithDeadline", "ret")
    /\ trigger' = [trigger EXCEPT ![Top(t).c] = "norm"]
    /\ stack' = [stack EXCEPT ![t] = Pop(@)]
    /\ UNCHANGED <<scopeVars, mu, done, closed, children, err, timerSet, timerState,
                   now, foreignErr, goroutines, panicked>>

\* lines 309-319: WithValue
WithValue(t, par) ==
    /\ IdleCaller(t) /\ MayBegin
    /\ NextScope \in Scopes
    /\ Held(par)
    /\ Cardinality({s \in Scopes : kind[s] = "value"}) < MaxValues
    /\ kind' = [kind EXCEPT ![NextScope] = "value"]
    /\ parent' = [parent EXCEPT ![NextScope] = par]
    /\ trigger' = [trigger EXCEPT ![NextScope] = "value"]
    /\ UNCHANGED <<deadline, mu, done, closed, children, err, timerSet, timerState, now,
                   foreignErr, stack, goroutines, panicked>>

\* ------------------------------------------------------ callers and timers
\* lines 211, 289, 298: the CancelFunc is called
CallTrigger(t, c) ==
    /\ IdleCaller(t) /\ MayBegin
    /\ c \in Scopes /\ trigger[c] \in {"rm", "norm"}
    /\ CancelCall(t, << >>, c, trigger[c] = "rm", TriggerCause, "trigger", FALSE, done)
    /\ UNCHANGED <<scopeVars, timerSet, timerState, trigger, now, foreignErr, goroutines>>

\* lines 294-296: the timer runs c.cancel(true, DeadlineExceeded)
TimerFire(c) ==
    /\ c \in Scopes
    /\ Alive
    /\ timerState[c] = "pending"
    /\ now >= deadline[c]
    /\ MayBegin
    /\ timerState' = [timerState EXCEPT ![c] = "fired"]
    /\ CancelCall(TimerThread(c), << >>, c, TRUE, TimerCause, "timer", FALSE, done)
    /\ UNCHANGED <<scopeVars, timerSet, trigger, now, foreignErr, goroutines>>

\* the clock advances
Tick ==
    /\ Alive
    /\ now < MaxTime
    /\ now' = now + 1
    /\ UNCHANGED <<scopeVars, mu, done, closed, children, err, timerSet, timerState,
                   trigger, foreignErr, stack, goroutines, panicked>>

\* the foreign context is cancelled by its own implementation; one that breaks
\* the Context contract closes Done() while Err() still returns nil
CancelForeign(e) ==
    /\ Alive
    /\ Foreign \notin closed
    /\ foreignErr' = e
    /\ closed' = closed \cup {Foreign}
    /\ UNCHANGED <<scopeVars, mu, done, children, err, timerSet, timerState, trigger,
                   now, stack, goroutines, panicked>>

ThreadStep(t) ==
    \/ CancelLoop(t) \/ CancelEarly(t) \/ CancelUnlock(t) \/ CancelRemove(t)
    \/ TimerRemove(t) \/ TimerStop(t)
    \/ PcRegister(t)
    \/ WdUntil(t) \/ WdReturn(t)
    \/ WatchEnter(t) \/ WatchParentFires(t) \/ WatchChildFires(t)

Next ==
    \/ \E t \in Threads : ThreadStep(t)
    \/ \E t \in Callers, par \in Scopes \cup {Background, Foreign} : WithCancel(t, par)
    \/ \E t \in Callers, par \in Scopes \cup {Background, Foreign}, d \in 0..MaxTime :
           WithDeadline(t, par, d)
    \/ \E t \in Callers, par \in Scopes \cup {Background, Foreign} : WithValue(t, par)
    \/ \E t \in Callers, c \in Scopes : CallTrigger(t, c)
    \/ \E c \in Scopes : TimerFire(c)
    \/ Tick
    \/ \E e \in {ForeignErr} : CancelForeign(e)

Spec == Init /\ [][Next]_vars

\* ================================================================ claims
\* the nearest *cancelCtx above c along the embedded contexts
Anc(c) == ValueCancelCtx(parent[c])

RECURSIVE IsUnder(_, _)
IsUnder(d, s) == Anc(d) # NoCtx /\ (Anc(d) = s \/ IsUnder(Anc(d), s))

\* propagateCancel(parent, c) has returned for c
Propagated(c) ==
    /\ Cancellable(c)
    /\ ~\E t \in Threads : \E i \in 1..Len(stack[t]) :
           stack[t][i].c = c /\ stack[t][i].pc = "pc_reg"

\* some thread is inside the loop of cancelCtx.cancel on c (c.mu held)
InFanOut(c) ==
    \E t \in Threads : \E i \in 1..Len(stack[t]) :
        stack[t][i].fn = "cancel" /\ stack[t][i].c = c /\ stack[t][i].pc = "c_loop"

\* C1: once the cancel call that cancelled S has returned, every context whose
\* chain of nearest cancellable ancestors leads to S and whose registration
\* (propagateCancel) is over has a non-nil err.
C1_SynchronousFanOut ==
    \A s \in Scopes : \A d \in Scopes :
        (CancelDone(s) /\ Propagated(d) /\ IsUnder(d, s)) => err[d] # Nil

\* a chain S <- D <- E, derived while S and D were live; the timer of S fired
\* and its cancel has returned
C1_Witness ==
    \E s \in Scopes : \E d \in Scopes : \E e \in Scopes :
        /\ CancelDone(s) /\ Anc(d) = s /\ Anc(e) = d
        /\ Propagated(d) /\ Propagated(e)
        /\ timerState[s] = "fired" /\ done[s] = s /\ done[d] = d
        /\ err[s] = DeadlineExceeded /\ err[d] = DeadlineExceeded
        /\ err[e] = DeadlineExceeded
        /\ \A t \in Threads : ~Running(t)

\* C2 (as stated): whenever the done channel of S is closed, every context
\* registered below S has a non-nil err.
C2_ClosedImpliesSubtree ==
    \A s \in Scopes : \A d \in Scopes :
        (Cancellable(s) /\ done[s] # NoChan /\ IsClosed(done[s])
            /\ Propagated(d) /\ IsUnder(d, s)) => err[d] # Nil

\* C2 (amended): whenever the done channel of S is closed and the cancel that
\* closed it is past its loop over c.children (c.mu released), every context
\* registered below S has a non-nil err.
C2_ClosedAndUnlockedImpliesSubtree ==
    \A s \in Scopes : \A d \in Scopes :
        (Cancellable(s) /\ done[s] # NoChan /\ IsClosed(done[s]) /\ ~InFanOut(s)
            /\ Propagated(d) /\ IsUnder(d, s)) => err[d] # Nil

\* the cancel of S has left its loop and not yet returned (removeChild is
\* next); the channel of S is closed and its descendant D carries S's err
C2_Witness ==
    \E t \in Threads : \E d \in Scopes :
        /\ At(t, "cancel", "c_remove") /\ Top(t).win
        /\ done[Top(t).c] = Top(t).c /\ IsClosed(done[Top(t).c])
        /\ Propagated(d) /\ Anc(d) = Top(t).c /\ trigger[d] # "none"
        /\ err[d] = err[Top(t).c]

\* C3: a context's err, once non-nil, is never changed by any step (timer,
\* CancelFunc, fan-out of an ancestor, watcher).
C3_FirstCauseWins ==
    [][\A s \in Scopes : err[s] # Nil => err'[s] = err[s]]_vars

\* the timer of C fired and its goroutine has finished, yet C keeps the
\* Canceled of the CancelFunc that took the lock first
C3_Witness ==
    \E c \in Scopes :
        /\ timerState[c] = "fired" /\ err[c] = Canceled
        /\ ~Running(TimerThread(c))
        /\ Anc(c) = NoCtx

\* C4: a step that derives c (WithCancel, WithDeadline) from a parent whose
\* Err() is already non-nil leaves c with that err, in no children set, and
\* starts no watcher goroutine; propagateCancel has returned with that step.
C4_DerivedFromCancelled ==
    [][\A c \in Scopes :
         (kind[c] = "none" /\ kind'[c] \in {"cancel", "timer"} /\ ErrOf(parent'[c]) # Nil)
         => /\ err'[c] = ErrOf(parent'[c])
            /\ \A p \in Scopes : c \notin children'[p]
            /\ stack'[WatcherThread(c)] = << >>
            /\ goroutines' = goroutines
            /\ \A t \in Threads : \A i \in 1..Len(stack'[t]) :
                   stack'[t][i].c = c => stack'[t][i].pc = "wd_until"]_vars

\* C was derived from a timer context that had already been cancelled with
\* DeadlineExceeded before anyone asked for its Done channel
C4_Witness ==
    \E c \in Scopes :
        /\ kind[c] = "cancel" /\ trigger[c] = "rm"
        /\ parent[c] \in Scopes /\ kind[parent[c]] = "timer"
        /\ done[parent[c]] = ClosedChan /\ err[parent[c]] = DeadlineExceeded
        /\ err[c] = DeadlineExceeded /\ done[c] = ClosedChan
        /\ \A p \in Scopes : c \notin children[p]

\* C5 (as stated): when WithDeadline returns after finding the deadline passed
\* (dur <= 0), the new context's err is DeadlineExceeded, whatever the state
\* of the parent.
C5_PastDeadlineAlwaysExceeded ==
    \A c \in Scopes : trigger[c] = "norm" => err[c] = DeadlineExceeded

\* C5 (amended): when WithDeadline returns after finding the deadline passed,
\* the new context is cancelled, and its err is DeadlineExceeded unless the
\* cancellation of its parent reached it first, in which case it is the
\* parent's err.
C5_PastDeadlineCancelled ==
    \A c \in Scopes :
        trigger[c] = "norm" =>
            /\ err[c] # Nil
            /\ err[c] = DeadlineExceeded \/ err[c] = ErrOf(parent[c])
            /\ ErrOf(parent[c]) = Nil => err[c] = DeadlineExceeded

\* WithDeadline returned a context with a passed deadline under a live parent
C5_Witness ==
    \E c \in Scopes :
        /\ trigger[c] = "norm" /\ kind[c] = "timer" /\ parent[c] \in Scopes
        /\ err[parent[c]] = Nil /\ err[c] = DeadlineExceeded
        /\ timerState[c] = "none" /\ \A t \in Threads : ~Running(t)

\* thread t takes a step of a cancel call that began on a context already
\* cancelled by calls that had returned
LateStep(t) ==
    /\ stack'[t] # stack[t]
    /\ \/ Running(t) /\ Top(t).late
       \/ Len(stack'[t]) > 0 /\ stack'[t][Len(stack'[t])].late

\* C6: every step of a cancel call on a context whose cancellation had already
\* returned leaves every err, done channel, children set and timer as it was
\* and closes no channel; and no run ever closes a closed channel.
C6_Idempotent ==
    [][/\ panicked' # ClosePanic
       /\ \A t \in Threads :
            LateStep(t) => UNCHANGED <<err, done, closed, children, timerSet, timerState,
                                       mu, panicked>>]_vars

\* the CancelFunc of a timer context is called again after its cancellation
\* returned: the call is past cancelCtx.cancel and about to stop the timer
C6_Witness ==
    \E t \in Callers :
        /\ At(t, "timerCancel", "t_stop") /\ Top(t).late /\ Top(t).src = "trigger"
        /\ err[Top(t).c] = Canceled /\ Anc(Top(t).c) # NoCtx

\* the done channel of s exists and is closed, in the given done fields and
\* set of closed channels
ClosedIn(dn, cl, s) == dn[s] # NoChan /\ (dn[s] = ClosedChan \/ dn[s] \in cl)

\* the contexts whose CancelFunc, timer or past-deadline cancel thread t is
\* running before or after a step
RootTargets(t) ==
    {stack[t][i].c : i \in {j \in 1..Len(stack[t]) :
                              stack[t][j].src \in {"trigger", "timer", "deadline"}}}
    \cup {stack'[t][i].c : i \in {j \in 1..Len(stack'[t]) :
                              stack'[t][j].src \in {"trigger", "timer", "deadline"}}}

\* C7: a step of a thread running the CancelFunc, the timer or the
\* past-deadline cancel of B changes the err or closes the done channel only
\* of B and of contexts below B, never of a parent, ancestor or sibling.
C7_NoUpwardPropagation ==
    [][\A t \in Threads : \A b \in RootTargets(t) : \A s \in Scopes :
         (stack'[t] # stack[t] /\ s # b /\ ~IsUnder(s, b))
         => /\ err'[s] = err[s]
            /\ ClosedIn(done', closed', s) = ClosedIn(done, closed, s)]_vars

\* B and C derived from A; the timer of B fired and its cancel returned: B is
\* DeadlineExceeded and detached, A and C are untouched
C7_Witness ==
    \E a \in Scopes : \E b \in Scopes : \E c \in Scopes :
        /\ b # c /\ parent[b] = a /\ parent[c] = a /\ kind[a] = "cancel"
        /\ timerState[b] = "fired" /\ err[b] = DeadlineExceeded
        /\ err[a] = Nil /\ err[c] = Nil /\ children[a] = {c}
        /\ ~ClosedIn(done, closed, a) /\ ~ClosedIn(done, closed, c)
        /\ \A t \in Threads : ~Running(t)

\* C8: a step of the loop of cancelCtx.cancel on A (lines 82-85) that changes
\* the err of a context changes that of a child registered in A, from nil to
\* the err of A.
C8_CauseInheritance ==
    [][\A t \in Threads : \A d \in Scopes :
         (At(t, "cancel", "c_loop") /\ stack'[t] # stack[t] /\ err'[d] # err[d])
         => /\ d \in children[Top(t).c]
            /\ err[d] = Nil
            /\ err'[d] = err[Top(t).c]
            /\ err'[Top(t).c] = err[Top(t).c]]_vars

\* the CancelFunc of A is in its loop and has called cancel on its child B,
\* which took A's Canceled and is now in its own loop
C8_Witness ==
    \E t \in Callers :
        /\ Len(stack[t]) = 2
        /\ stack[t][1].pc = "c_loop" /\ stack[t][1].src = "trigger"
        /\ stack[t][2].pc = "c_loop" /\ stack[t][2].src = "fanout" /\ stack[t][2].win
        /\ stack[t][2].c \in FanOutSet(stack[t][1].c)
        /\ err[stack[t][1].c] = Canceled /\ err[stack[t][2].c] = Canceled

\* thread t returns from a cancel call with removal on c: a frame of
\* cancelCtx.cancel(true, _) or timerCtx.cancel(true, _) on c is popped
ReturnsRemoving(t, c) ==
    \E i \in 1..Len(stack[t]) :
        /\ stack[t][i].fn \in {"cancel", "timerCancel"}
        /\ stack[t][i].c = c /\ stack[t][i].rm
        /\ i = 1 \/ stack[t][i - 1].fn # "timerCancel"
        /\ \/ Len(stack'[t]) < i
           \/ stack'[t][i].fn \notin {"cancel", "timerCancel"}
           \/ stack'[t][i].c # c

\* a context once out of a children set is never put (back) into it
StaysDetached ==
    \A c \in Scopes : \A p \in Scopes :
        (Propagated(c) /\ c \notin children[p]) => c \notin children'[p]

\* a step of removeChild takes nothing but the child out of the children sets
RemovesOnlyChild ==
    \A t \in Threads :
        (stack'[t] # stack[t] /\ (At(t, "cancel", "c_remove") \/ At(t, "timerCancel", "t_remove")))
        => \A p \in Scopes : children'[p] = children[p] \ {Top(t).c}

ReturnsDetaching(t, c) ==
    \E i \in 1..Len(stack[t]) :
        /\ stack[t][i].c = c /\ stack[t][i].rm
        /\ \/ stack[t][i].fn = "cancel" /\ stack[t][i].win
           \/ stack[t][i].fn = "timerCancel"
        /\ \/ Len(stack'[t]) < i
           \/ stack'[t][i].fn \notin {"cancel", "timerCancel"}
           \/ stack'[t][i].c # c

PlainThreadStep(t) ==
    \/ CancelLoop(t) \/ CancelEarly(t) \/ CancelUnlock(t) \/ CancelRemove(t)
    \/ PcRegister(t)
    \/ WatchEnter(t) \/ WatchParentFires(t) \/ WatchChildFires(t)

PlainNext ==
    \/ \E t \in Threads : PlainThreadStep(t)
    \/ \E t \in Callers, par \in Scopes \cup {Background, Foreign} : WithCancel(t, par)
    \/ \E t \in Callers, par \in Scopes \cup {Background, Foreign} : WithValue(t, par)
    \/ \E t \in Callers, c \in Scopes : CallTrigger(t, c)
    \/ \E e \in {ForeignErr} : CancelForeign(e)

Fairness == \A t \in Threads : WF_vars(PlainThreadStep(t))

FairSpec == Init /\ [][PlainNext]_vars /\ Fairness

\* a watcher goroutine (lines 253-260) is running for a: the parent of a
\* answered parentCancelCtx with ok = false
Watched(a) == Running(WatcherThread(a))

\* C10: once the foreign parent of a watched context A is cancelled, A is
\* eventually cancelled; and the watcher's cancel gives A the parent's Err().
C10_WatcherLiveness ==
    /\ \A a \in Scopes : (Watched(a) /\ IsClosed(DoneChan(parent[a]))) ~> (err[a] # Nil)
    /\ [][\A a \in Scopes :
            (stack'[WatcherThread(a)] # stack[WatcherThread(a)] /\ err'[a] # err[a])
            => err'[a] = ErrOf(parent[a]) /\ err'[a] # Nil]_vars

\* the watcher of A saw the foreign parent closed, cancelled A with the
\* parent's error and ended
C10_Witness ==
    \E a \in Scopes :
        /\ parent[a] = Foreign /\ err[a] = ForeignErr /\ foreignErr = ForeignErr
        /\ done[a] = a /\ IsClosed(done[a])
        /\ ~Watched(a) /\ goroutines > 0

\* C11 (as stated): a timer context exists only under a parent without a
\* deadline or with a strictly later one (a parent deadline earlier than or
\* equal to d gives a plain cancelCtx), and only timer contexts have timers.
C11_TimerOnlyIfParentStrictlyLater ==
    \A c \in Scopes :
        /\ kind[c] = "timer" =>
              \/ DeadlineOf(parent[c]) = NoDeadline
              \/ DeadlineOf(parent[c]) > deadline[c]
        /\ kind[c] # "timer" => ~timerSet[c] /\ timerState[c] = "none"

\* C11 (amended): a timer context exists only under a parent without a
\* deadline or with a later or equal one (only a strictly earlier parent
\* deadline gives a plain cancelCtx), and only timer contexts have timers.
C11_TimerOnlyIfParentNotEarlier ==
    \A c \in Scopes :
        /\ kind[c] = "timer" =>
              \/ DeadlineOf(parent[c]) = NoDeadline
              \/ DeadlineOf(parent[c]) >= deadline[c]
        /\ kind[c] # "timer" => ~timerSet[c] /\ timerState[c] = "none"

\* A is a timer context, its child B a plain cancelCtx, and WithDeadline(B, d)
\* with d equal to the deadline B inherits from A returned a timerCtx
C11_Witness ==
    \E a \in Scopes : \E b \in Scopes : \E c \in Scopes :
        /\ kind[a] = "timer" /\ deadline[a] = 0 /\ parent[b] = a /\ kind[b] = "cancel"
        /\ kind[c] = "timer" /\ parent[c] = b /\ deadline[c] = 0
        /\ trigger[c] # "none" /\ trigger[b] # "none"

\* a timerCtx.cancel on c is running: its timer.Stop() is still to come
StopPending(c) ==
    \E t \in Threads : \E i \in 1..Len(stack[t]) :
        stack[t][i].fn = "timerCancel" /\ stack[t][i].c = c

\* no step starts a timer for a context that is already cancelled
NoTimerForCancelled ==
    \A c \in Scopes :
        (timerState'[c] = "pending" /\ timerState[c] # "pending") => err[c] = Nil

C13_CauseIffDoneClosed ==
    \A c \in Scopes :
        (Cancellable(c) /\ mu[c] = NoThread) =>
            (err[c] # Nil <=> ClosedIn(done, closed, c))

\* one context cancelled through its own channel, one cancelled before anyone
\* asked for its channel (closedchan), and one live with its channel open
C13_Witness ==
    \E a \in Scopes : \E b \in Scopes : \E c \in Scopes :
        /\ done[a] = a /\ a \in closed /\ err[a] # Nil
        /\ done[b] = ClosedChan /\ err[b] # Nil
        /\ done[c] = c /\ c \notin closed /\ err[c] = Nil
        /\ mu[a] = NoThread /\ mu[b] = NoThread /\ mu[c] = NoThread

\* C14: when the derivation of C from a cancelCtx P (directly or through
\* WithValue) has returned and the cancel that cancelled P has returned, C is
\* cancelled.
C14_NoMissedCancellation ==
    \A c \in Scopes : \A p \in Scopes :
        (Cancellable(c) /\ trigger[c] # "none" /\ Anc(c) = p
            /\ err[p] # Nil /\ ~WinnerRunning(p)) => err[c] # Nil

\* C's derivation from P found P live at parent.Done() and P cancelled under
\* P's lock (or was registered and reached by the loop): P's timer fired, C has
\* P's cause and never had a channel of its own
C14_Witness ==
    \E c \in Scopes : \E p \in Scopes :
        /\ kind[c] = "cancel" /\ parent[c] = p /\ trigger[c] = "rm"
        /\ kind[p] = "timer" /\ timerState[p] = "fired" /\ done[p] = p
        /\ err[p] = DeadlineExceeded /\ err[c] = DeadlineExceeded
        /\ done[c] = ClosedChan /\ children[p] = {}
        /\ \A t \in Threads : ~Running(t)

\* the locks thread t holds
HeldBy(t) == {s \in Scopes : mu[s] = t}

\* thread t is inside a call and cannot take its next step
Blocked(t) == Busy(t) /\ ~ENABLED ThreadStep(t)

\* C15: no deadlock: whenever some goroutine is inside a cancel or a derivation
\* (a watcher parked in its select is not), one of them can take its next
\* step; and the locks one goroutine holds at a time lie on one ancestor chain,
\* each acquired below the ones already held.
C15_DeadlockFree ==
    /\ (Alive /\ \E t \in Threads : Busy(t)) => \E u \in Threads : Busy(u) /\ ~Blocked(u)
    /\ \A t \in Threads : \A a \in HeldBy(t) : \A b \in HeldBy(t) :
           a # b => (IsUnder(a, b) \/ IsUnder(b, a))

\* one goroutine holds the locks of a context and of its child inside nested
\* loops while another, cancelling a grandchild, waits for the child's lock
C15_Witness ==
    \E t \in Threads : \E u \in Threads : \E a \in HeldBy(t) : \E b \in HeldBy(t) :
        /\ IsUnder(b, a)
        /\ u # t /\ Blocked(u)
        /\ Top(u).fn = "cancel" /\ Top(u).pc = "c_remove" /\ Anc(Top(u).c) = b

\* no step adds a child to a context whose err is already set
NoInsertIntoCancelled ==
    \A c \in Scopes : err[c] # Nil => children'[c] \subseteq children[c]

\* C16: a cancelled cancelCtx whose lock is free has no children, and no step
\* ever adds a child to a cancelled cancelCtx.
C16_CancelledHasNoChildren ==
    /\ [](\A c \in Scopes : (err[c] # Nil /\ mu[c] = NoThread) => children[c] = {})
    /\ [][NoInsertIntoCancelled]_vars

\* a context that was polled by a derivation while live is cancelled, two
\* derivations from it have returned, and its set of children is empty
C16_Witness ==
    \E c \in Scopes : \E a \in Scopes : \E b \in Scopes :
        /\ a # b /\ Anc(a) = c /\ Anc(b) = c
        /\ trigger[a] # "none" /\ trigger[b] # "none"
        /\ done[c] = c /\ err[c] # Nil /\ children[c] = {}
        /\ \A t \in Threads : ~Running(t)

\* contexts whose parent chain reaches no cancelCtx but has a Done channel
Opaque == {c \in Scopes : Cancellable(c) /\ Anc(c) = NoCtx /\ DoneOwner(parent[c]) = Foreign}

\* C17: a live context derived from a valueCtx whose nearest cancelCtx A is
\* live is, once propagateCancel has returned, in A.children and has no
\* watcher goroutine; watcher goroutines exist only for contexts for which
\* parentCancelCtx finds no cancelCtx, at most one each.
C17_DecoratorTransparency ==
    /\ \A c \in Scopes :
           (Propagated(c) /\ parent[c] \in Scopes /\ kind[parent[c]] = "value" /\ Anc(c) # NoCtx
               /\ err[Anc(c)] = Nil /\ err[c] = Nil)
           => (c \in children[Anc(c)] /\ ~Running(WatcherThread(c)))
    /\ \A c \in Scopes : Running(WatcherThread(c)) => c \in Opaque
    /\ goroutines <= Cardinality(Opaque)

\* a live context derived from a valueCtx over a live cancelCtx is registered
\* in it, while the watcher of a context derived from the foreign context runs
C17_Witness ==
    \E c \in Scopes : \E w \in Scopes :
        /\ Propagated(c) /\ parent[c] \in Scopes /\ kind[parent[c]] = "value" /\ Anc(c) # NoCtx
        /\ err[Anc(c)] = Nil /\ err[c] = Nil /\ trigger[c] # "none"
        /\ c \in children[Anc(c)]
        /\ Running(WatcherThread(w)) /\ goroutines = 1

\* the watcher goroutine of a is parked in its select
InSelect(a) ==
    Watched(a) /\ Top(WatcherThread(a)).fn = "watcher" /\ Top(WatcherThread(a)).pc = "w_select"

\* C18: under fair scheduling a watcher goroutine ends once its parent's or its
\* child's done channel is closed (whatever locks other goroutines hold
\* meanwhile); a watcher that leaves its select when the child is already
\* cancelled ends at once and changes nothing; no step of a watcher changes
\* the foreign parent.
C18_NoLeakedWatcher ==
    /\ \A a \in Scopes :
           (Watched(a) /\ (IsClosed(DoneChan(parent[a])) \/ err[a] # Nil)) ~> ~Watched(a)
    /\ [][\A a \in Scopes :
            (InSelect(a) /\ stack'[WatcherThread(a)] # stack[WatcherThread(a)]) =>
                /\ err[a] # Nil =>
                      (/\ stack'[WatcherThread(a)] = << >>
                       /\ UNCHANGED <<err, done, closed, children, mu, goroutines>>)
                /\ UNCHANGED <<foreignErr, scopeVars>>
                /\ (Foreign \in closed') = (Foreign \in closed)]_vars

\* the child of the foreign parent was cancelled by its CancelFunc while the
\* parent is still open, and its watcher has ended
C18_Witness ==
    \E a \in Scopes :
        /\ parent[a] = Foreign /\ err[a] = Canceled
        /\ Foreign \notin closed /\ foreignErr = Nil
        /\ goroutines = 1 /\ ~Watched(a)
        /\ \A t \in Threads : ~Running(t)

\* The programs without deadlines whose foreign parent may break the Context
\* contract: its Done() closes while Err() still returns nil, so that
\* child.cancel(false, parent.Err()) (lines 232 and 257) is a cancel with a
\* nil err.
BrokenNext ==
    \/ \E t \in Threads : PlainThreadStep(t)
    \/ \E t \in Callers, par \in Scopes \cup {Background, Foreign} : WithCancel(t, par)
    \/ \E t \in Callers, par \in Scopes \cup {Background, Foreign} : WithValue(t, par)
    \/ \E t \in Callers, c \in Scopes : CallTrigger(t, c)
    \/ \E e \in {ForeignErr, Nil} : CancelForeign(e)

BrokenSpec == Init /\ [][BrokenNext]_vars

\* the step in which cancel panics on a nil err
NilCausePanics == panicked = NoPanic /\ panicked' = NilErrPanic

\* C19: the step in which cancel is entered with a nil err panics without
\* taking any lock and changes no context's err, done channel or children; and
\* no step closes the done channel of a context while leaving its err nil.
C19_NilCauseChangesNothing ==
    /\ [][NilCausePanics => UNCHANGED <<err, done, closed, children, mu>>]_vars
    /\ [][\A c \in Scopes :
            (~ClosedIn(done, closed, c) /\ ClosedIn(done', closed', c)) => err'[c] # Nil]_vars

\* the watcher of a live context with a registered live child found the
\* foreign parent closed with a nil Err(): the program panicked and both
\* contexts are as they were
C19_Witness ==
    \E a \in Scopes : \E b \in Scopes :
        /\ panicked = NilErrPanic
        /\ parent[a] = Foreign /\ Foreign \in closed /\ foreignErr = Nil
        /\ goroutines = 1
        /\ err[a] = Nil /\ children[a] = {b} /\ err[b] = Nil
        /\ a \notin closed /\ b \notin closed

\* C20: every context is in at most one children set; the context in whose
\* children it is registered is its nearest cancelCtx along the parent chain
\* and never itself.
C20_TreeConsistency ==
    /\ \A p \in Scopes : \A c \in children[p] : p = Anc(c) /\ p # c /\ Cancellable(p)
    /\ \A p \in Scopes : \A q \in Scopes : p # q => children[p] \cap children[q] = {}

\* a chain of three live contexts, each registered in the one above, the
\* derivation of the lowest having returned
C20_Witness ==
    \E a \in Scopes : \E b \in Scopes : \E c \in Scopes :
        /\ b \in children[a] /\ c \in children[b]
        /\ err[a] = Nil /\ err[b] = Nil /\ err[c] = Nil
        /\ trigger[c] # "none"

====
